---- MODULE Spec2Model ----
(***************************************************************************)
(* Lead-qualification dialogue engine of zia-bot: the POST /mc/reply       *)
(* handler of src/server.js (latest revision, lines 550-1172), its         *)
(* heuristic classifiers, the JSON repair pipeline, the reconciliation of  *)
(* the oracle's state delta, the Redis-backed memory and the one-time      *)
(* admin notification.                                                     *)
(*                                                                         *)
(* Text is modelled as a sequence of UTF-16 code units, one short string   *)
(* per code unit ("n~" is n-tilde, "i'" is i-acute, "uD83D","uDC4D" are    *)
(* the two surrogates of the thumbs-up glyph), so that trimming,           *)
(* lower-casing, length and substring tests are computed, not assumed.     *)
(* A history entry is modelled by its role; its content is not kept.       *)
(***************************************************************************)
EXTENDS Integers, Sequences, FiniteSets, TLC

\* ------------------------------------------------------------------ text

UpperLetters ==
    <<"A", "B", "C", "D", "E", "F", "G", "H", "I", "J", "K", "L", "M",
      "N", "O", "P", "Q", "R", "S", "T", "U", "V", "W", "X", "Y", "Z">>

LowerLetters ==
    <<"a", "b", "c", "d", "e", "f", "g", "h", "i", "j", "k", "l", "m",
      "n", "o", "p", "q", "r", "s", "t", "u", "v", "w", "x", "y", "z">>

LowerChar(c) ==
    IF \E i \in 1..Len(UpperLetters) : UpperLetters[i] = c
    THEN LowerLetters[CHOOSE i \in 1..Len(UpperLetters) : UpperLetters[i] = c]
    ELSE c

\* String.prototype.toLowerCase
toLowerCase(s) == [i \in 1..Len(s) |-> LowerChar(s[i])]

IsSpace(c) == c = " "

RECURSIVE TrimStart(_)
TrimStart(s) ==
    IF s = <<>> THEN <<>>
    ELSE IF IsSpace(Head(s)) THEN TrimStart(Tail(s)) ELSE s

RECURSIVE TrimEnd(_)
TrimEnd(s) ==
    IF s = <<>> THEN <<>>
    ELSE IF IsSpace(s[Len(s)]) THEN TrimEnd(SubSeq(s, 1, Len(s) - 1)) ELSE s

\* String.prototype.trim
trim(s) == TrimEnd(TrimStart(s))

\* String.prototype.includes
includes(s, sub) ==
    \E i \in 0..(Len(s) - Len(sub)) : SubSeq(s, i + 1, i + Len(sub)) = sub

\* String.prototype.startsWith
startsWith(s, pre) == Len(pre) <= Len(s) /\ SubSeq(s, 1, Len(pre)) = pre

\* ------------------------------------------------------------ JSON values

\* null, undefined and an absent property all behave alike in the handler
Null == [t |-> "null"]

Str(s) == [t |-> "str", s |-> s]

Bool(b) == [t |-> "bool", b |-> b]

Num(n) == [t |-> "num", n |-> n]

\* JavaScript truthiness of a JSON value
Truthy(x) ==
    CASE x.t = "null" -> FALSE
      [] x.t = "str"  -> x.s # <<>>
      [] x.t = "bool" -> x.b
      [] x.t = "num"  -> x.n # 0
      [] OTHER        -> TRUE

Digit(n) == <<"0", "1", "2", "3", "4", "5", "6", "7", "8", "9">>[n + 1]

\* String(x ?? "").trim()
safeText(x) ==
    CASE x.t = "null" -> <<>>
      [] x.t = "str"  -> trim(x.s)
      [] x.t = "bool" -> IF x.b THEN <<"t", "r", "u", "e">>
                                ELSE <<"f", "a", "l", "s", "e">>
      [] x.t = "num"  -> <<Digit(x.n)>>
      [] OTHER        -> <<"[", "o", "b", "j", "e", "c", "t", "]">>

\* ------------------------------------------------------------ classifiers

AckWords ==
    { <<"o", "k">>,
      <<"o", "k", "a", "y">>,
      <<"g", "r", "a", "c", "i", "a", "s">>,
      <<"h", "o", "l", "a">>,
      <<"m", "a", "n~", "a", "n", "a">>,
      <<"p", "e", "r", "f", "e", "c", "t", "o">>,
      <<"l", "i", "s", "t", "o">>,
      <<"uD83D", "uDC4D">> }

BlockedWords ==
    { <<"h", "o", "l", "a">>,
      <<"b", "u", "e", "n", "a", "s">>,
      <<"b", "u", "e", "n", "o", "s", " ", "d", "i", "a", "s">>,
      <<"b", "u", "e", "n", "a", "s", " ", "t", "a", "r", "d", "e", "s">>,
      <<"b", "u", "e", "n", "a", "s", " ", "n", "o", "c", "h", "e", "s">>,
      <<"o", "k">>,
      <<"o", "k", "a", "y">>,
      <<"g", "r", "a", "c", "i", "a", "s">>,
      <<"m", "a", "n~", "a", "n", "a">>,
      <<"p", "e", "r", "f", "e", "c", "t", "o">>,
      <<"l", "i", "s", "t", "o">>,
      <<"s", "i">>,
      <<"s", "i'">>,
      <<"n", "o">>,
      <<"a", "m", "b", "o", "s">>,
      <<"a", "m", "b", "a", "s">>,
      <<"r", "e", "d", "e", "s">>,
      <<"b", "o", "t">>,
      <<"v", "e", "n", "t", "a", "s">>,
      <<"l", "e", "a", "d", "s">>,
      <<"r", "e", "s", "e", "r", "v", "a", "s">>,
      <<"p", "o", "s", "i", "c", "i", "o", "n", "a", "m", "i", "e", "n", "t", "o">>,
      <<"uD83D", "uDC4D">>,
      <<".", ".", ".">>,
      <<".", ".">>,
      <<".">> }

LinkMarkers ==
    { <<"h", "t", "t", "p">>,
      <<"w", "w", "w", ".">>,
      <<".", "c", "o", "m">>,
      <<".", "d", "o">>,
      <<"i", "n", "s", "t", "a", "g", "r", "a", "m">>,
      <<"t", "i", "k", "t", "o", "k">>,
      <<"w", "a", ".", "m", "e">> }

AudioExt ==
    { <<".", "o", "g", "g">>,
      <<".", "o", "p", "u", "s">>,
      <<".", "m", "p", "3">>,
      <<".", "m", "4", "a">>,
      <<".", "w", "a", "v">>,
      <<".", "w", "e", "b", "m">>,
      <<".", "a", "a", "c">> }

\* the membership test without the lower-casing
isAckCaseSensitive(text) == trim(text) \in AckWords

isAck(text) == toLowerCase(trim(text)) \in AckWords

looksLikeLinkOrHandle(t) ==
    \/ includes(trim(t), <<"@">>)
    \/ \E m \in LinkMarkers : includes(toLowerCase(trim(t)), m)

MinBusinessNameLen == 3

looksLikeBusinessName(t) ==
    /\ ~(Len(trim(t)) < MinBusinessNameLen)
    /\ toLowerCase(trim(t)) \notin BlockedWords

looksLikeAudioUrl(t) ==
    /\ trim(t) # <<>>
    /\ startsWith(toLowerCase(trim(t)), <<"h", "t", "t", "p">>)
    /\ \E ext \in AudioExt : includes(toLowerCase(trim(t)), ext)

\* ------------------------------------------------------------- memory

Slots == <<"sector", "servicio", "redes">>

defaultMemory ==
    [ sector         |-> <<>>,
      servicio       |-> <<>>,
      redes          |-> <<>>,
      objetivo       |-> <<>>,
      cerrado        |-> FALSE,
      cierre_enviado |-> FALSE,
      pending        |-> <<"s", "e", "c", "t", "o", "r">>,
      history        |-> <<>>,
      admin_notified |-> FALSE ]

\* a value of the key-value store: the key is absent, or holds a
\* serialized memory object
Absent == [present |-> FALSE, val |-> defaultMemory]

Stored(m) == [present |-> TRUE, val |-> m]

inferPending(mem) ==
    IF mem.sector = <<>> THEN <<"s", "e", "c", "t", "o", "r">>
    ELSE IF mem.servicio = <<>> THEN <<"s", "e", "r", "v", "i", "c", "i", "o">>
    ELSE IF mem.redes = <<>> THEN <<"r", "e", "d", "e", "s">>
    ELSE <<"n", "o", "n", "e">>

\* Array.prototype.slice(-max) of clampHistory
clampHistory(history, max) ==
    IF Len(history) <= max THEN history
    ELSE SubSeq(history, Len(history) - max + 1, Len(history))

HistoryKeep == 12

\* the values of mem.pending
PSector == <<"s", "e", "c", "t", "o", "r">>

PServicio == <<"s", "e", "r", "v", "i", "c", "i", "o">>

PRedes == <<"r", "e", "d", "e", "s">>

PNone == <<"n", "o", "n", "e">>

\* ------------------------------------------------ oracle output and parsing

\* The oracle's raw completion text, by shape:
\*   wrap = "json"   the text is exactly the JSON value val
\*   wrap = "fenced" the JSON value val wrapped in code fences or prose
\*   wrap = "prose"  text that holds no JSON at all (val unused)
\*   wrap = "empty"  no content: choices?.[0]?.message?.content || ""
Raw(wrap, val) == [wrap |-> wrap, val |-> val]

\* a JSON object {reply, state}
Obj(reply, state) == [t |-> "obj", reply |-> reply, state |-> state]

EmptyState ==
    [ t |-> "state", sector |-> Null, servicio |-> Null, redes |-> Null,
      objetivo |-> Null, cerrado |-> Null, cierre_enviado |-> Null,
      pending |-> Null ]

\* the text between the first "{" and the last "}" once the fences are
\* removed; <<>> stands for "", Null for no candidate
extractFirstJsonObject(raw) ==
    IF raw.wrap \in {"json", "fenced"} /\ raw.val.t \in {"obj", "state"}
    THEN raw.val
    ELSE Null

\* JSON.parse of the whole text: succeeds only on text that is exactly JSON
ParsesDirectly(raw) == raw.wrap = "json"

safeParseModelJson(raw) ==
    IF raw.wrap = "empty" THEN Null
    ELSE IF ParsesDirectly(raw) THEN raw.val
    ELSE extractFirstJsonObject(raw)

\* property access on a parsed JSON value: undefined unless it is an object
ReplyOf(parsed) == IF parsed.t = "obj" THEN parsed.reply ELSE Null

\* parsed.state || {}
StateOf(parsed) ==
    IF parsed.t = "obj" /\ Truthy(parsed.state) /\ parsed.state.t = "state"
    THEN parsed.state
    ELSE EmptyState

\* the merge without its fallback: safeText(newState.slot)
MergeSlotErasing(new, old) == safeText(new)

\* safeText(newState.slot) || mem.slot
MergeSlot(new, old) == IF safeText(new) # <<>> THEN safeText(new) ELSE old

\* the flag coerced: !!newState.flag
MergeFlagCoerced(new, old) == Truthy(new)

\* typeof newState.flag === "boolean" ? newState.flag : mem.flag
MergeFlag(new, old) == IF new.t = "bool" THEN new.b ELSE old

\* the oracle's pending taken when it gives one: newState.pending || inferPending(mem)
NextPendingTrusting(newState, merged) ==
    IF safeText(newState.pending) # <<>> THEN safeText(newState.pending)
    ELSE inferPending(merged)

\* line 1126: the pending value persisted after the merge
NextPending(newState, merged) == inferPending(merged)

\* the append without the clamp
AppendHistoryUnclamped(history) == history \o <<"user", "assistant">>

\* [...(mem.history || []), {role: "user"}, {role: "assistant"}] clamped
AppendHistory(history) ==
    clampHistory(history \o <<"user", "assistant">>, HistoryKeep)

\* lines 1116-1132: the merge of the oracle's delta into the memory
Reconcile(mem, parsed) ==
    LET newState == StateOf(parsed)
        merged == [ mem EXCEPT
                      !.sector = MergeSlot(newState.sector, mem.sector),
                      !.servicio = MergeSlot(newState.servicio, mem.servicio),
                      !.redes = MergeSlot(newState.redes, mem.redes),
                      !.objetivo = MergeSlot(newState.objetivo, mem.objetivo),
                      !.cerrado = MergeFlag(newState.cerrado, mem.cerrado),
                      !.cierre_enviado =
                          MergeFlag(newState.cierre_enviado, mem.cierre_enviado) ]
    IN  [ merged EXCEPT
            !.pending = NextPending(newState, merged),
            !.history = AppendHistory(mem.history) ]

\* safeText(parsed.reply) || "Me repites eso en una linea, porfa?"
ReplyText(parsed) ==
    IF safeText(ReplyOf(parsed)) # <<>> THEN "oracle" ELSE "repeat"

\* What a parsed output carries, as the merge reads it: the slots whose value
\* is non-empty once trimmed, the pending it proposes, the history entries
\* the clamp drops when the turn's two entries are appended to mem.history,
\* and whether the merge fills the last slot: the memory as loaded had an
\* empty slot of sector, servicio, redes and the merged memory has none
NoDelta == [slots |-> {}, pending |-> <<>>, dropped |-> 0, closing |-> FALSE]

DeltaOf(loaded, mem, parsed) ==
    [ slots   |-> { i \in 1..Len(Slots) :
                      safeText(StateOf(parsed)[Slots[i]]) # <<>> },
      pending |-> safeText(StateOf(parsed).pending),
      dropped |-> Len(mem.history) + 2 - Len(Reconcile(mem, parsed).history),
      closing |-> /\ \E i \in 1..Len(Slots) : loaded[Slots[i]] = <<>>
                  /\ \A i \in 1..Len(Slots) :
                        Reconcile(mem, parsed)[Slots[i]] # <<>> ]

\* the completion test on the flag alone
leadCompleteFlagOnly(mem) == mem.cierre_enviado

\* line 1137: !!(mem.sector && mem.servicio && mem.redes && mem.cierre_enviado)
leadComplete(mem) ==
    /\ mem.sector # <<>>
    /\ mem.servicio # <<>>
    /\ mem.redes # <<>>
    /\ mem.cierre_enviado

\* the guard without the flag
ShouldNotifyUnguarded(m) == leadComplete(m)

\* line 1138: leadComplete && !mem.admin_notified
ShouldNotify(m) == leadComplete(m) /\ ~m.admin_notified

\* the pre-fill without the test of the pending step
PrefillsAnyStep(mem, userText) ==
    /\ mem.redes = <<>>
    /\ (looksLikeLinkOrHandle(userText) \/ looksLikeBusinessName(userText))

\* lines 1044-1049: accept odd names at the "redes" step
Prefills(mem, userText) ==
    /\ mem.pending = PRedes
    /\ mem.redes = <<>>
    /\ (looksLikeLinkOrHandle(userText) \/ looksLikeBusinessName(userText))

Prefill(mem, userText) ==
    IF Prefills(mem, userText)
    THEN [ [mem EXCEPT !.redes = userText] EXCEPT
             !.pending = inferPending([mem EXCEPT !.redes = userText]) ]
    ELSE mem

\* loadMemory on the reply of redis.get
loadMemory(raw) ==
    LET mem == IF raw.present THEN raw.val ELSE defaultMemory
    IN  IF mem.admin_notified \in BOOLEAN THEN mem
        ELSE [mem EXCEPT !.admin_notified = FALSE]

\* ------------------------------------------------------------- inputs

ContactA == <<"c", "1">>

ContactB == <<"c", "2">>

\* the contact identities that own a store entry
Contacts == {ContactA, ContactB}

\* the request handlers that may be in flight at once
Procs == {1, 2}

TOk == <<"O", "k">>

TFive == <<"5">>

TSpa == <<"s", "p", "a">>

THandle == <<"@", "z">>

TVoice == <<"h", "t", "t", "p", ":", "/", "/", "a", ".", "o", "g", "g">>

\* a request body: whether the bearer token matches (or none is configured),
\* contact_id, user_text, and the first of voice_url, audio_url, ...
Body(authorized, contact_id, user_text, audio_url) ==
    [ authorized |-> authorized, contact_id |-> contact_id,
      user_text |-> user_text, audio_url |-> audio_url ]

mustAuth(body) == body.authorized

\* /https?:\/\/[^\s"']+/ on a string that holds at most one URL and no quote
findFirstUrlDeep(s) ==
    IF \E i \in 1..Len(s) :
          startsWith(SubSeq(s, i, Len(s)), <<"h", "t", "t", "p", ":", "/", "/">>)
    THEN LET i == CHOOSE k \in 1..Len(s) :
                    /\ startsWith(SubSeq(s, k, Len(s)),
                                  <<"h", "t", "t", "p", ":", "/", "/">>)
                    /\ \A j \in 1..(k - 1) :
                          ~startsWith(SubSeq(s, j, Len(s)),
                                      <<"h", "t", "t", "p", ":", "/", "/">>)
             rest == SubSeq(s, i, Len(s))
             stop == IF \E k \in 1..Len(rest) : IsSpace(rest[k])
                     THEN (CHOOSE k \in 1..Len(rest) :
                             /\ IsSpace(rest[k])
                             /\ \A j \in 1..(k - 1) : ~IsSpace(rest[j])) - 1
                     ELSE Len(rest)
         IN  SubSeq(rest, 1, stop)
    ELSE <<>>

getAudioUrl(body) ==
    IF Truthy(body.audio_url) /\ body.audio_url.t = "str"
    THEN trim(findFirstUrlDeep(body.audio_url.s))
    ELSE <<>>

\* the requests of the sequential specification: one contact
Bodies ==
    { Body(FALSE, Str(ContactA), Str(TFive), Null),
      Body(TRUE, Null, Str(TFive), Null),
      Body(TRUE, Str(ContactA), Str(<<" ">>), Null),
      Body(TRUE, Str(ContactA), Str(TVoice), Null),
      Body(TRUE, Str(ContactA), Null, Str(<<" ">> \o TVoice)),
      Body(TRUE, Str(<<" ">>), Null, Str(TVoice)),
      Body(TRUE, Str(ContactA), Null, Str(TSpa)) }
    \cup { Body(TRUE, Str(<<" ">> \o ContactA), Str(t), Null) :
             t \in {TOk, TFive, TSpa \o <<" ">>, THandle} }

\* what the transcription returns: nothing (or an error, swallowed by
\* transcribeAudioFromUrl), blank text, a text
Transcripts == {Null, Str(<<" ">>), Str(TSpa)}

\* the values the oracle puts in the slots of its delta: absent, empty,
\* blank, and texts with and without surrounding blanks
SectorDeltas ==
    {Null, Str(<<>>), Str(<<" ">>), Str(<<"d">>), Str(<<" ", "e">>)}

ServicioDeltas == {Null, Str(<<" ">>), Str(<<"d", " ">>)}

RedesDeltas == {Null, Str(<<>>), Str(<<"d">>)}

FlagDeltas == {Null, Bool(TRUE), Bool(FALSE)}

\* the oracle's output has at most this many properties that are not null
MaxDeltaFields == 2

Present(x) == IF x = Null THEN 0 ELSE 1

OracleObjects ==
    { o \in
        { Obj(r, [ t |-> "state", sector |-> s1, servicio |-> s2, redes |-> s3,
                   objetivo |-> ob, cerrado |-> f1, cierre_enviado |-> f2,
                   pending |-> pe ]) :
            r \in {Null, Str(<<"r">>)}, s1 \in SectorDeltas,
            s2 \in ServicioDeltas, s3 \in RedesDeltas,
            ob \in {Null, Str(<<"q">>)}, f1 \in FlagDeltas,
            f2 \in FlagDeltas, pe \in {Null, Str(PNone)} } :
        Present(o.reply) + Present(o.state.sector) + Present(o.state.servicio)
          + Present(o.state.redes) + Present(o.state.objetivo)
          + Present(o.state.cerrado) + Present(o.state.cierre_enviado)
          + Present(o.state.pending) <= MaxDeltaFields }

\* completions that are no plain JSON object: an object in fences, prose,
\* no content, JSON that is no object (null, 0, 5), an object without state
OddOutputs ==
    { Raw("fenced", Obj(Str(<<"r">>), [EmptyState EXCEPT !.redes = Str(<<"d">>)])),
      Raw("prose", Null),
      Raw("empty", Null),
      Raw("json", Null),
      Raw("json", Num(0)),
      Raw("json", Num(5)),
      Raw("fenced", Num(5)),
      Raw("json", Obj(Str(<<"r">>), Null)) }

\* a completion that proposes to go back to the first question
BackToSector ==
    Raw("json", Obj(Str(<<"r">>), [EmptyState EXCEPT !.pending = Str(PSector)]))

\* the completions of the primary call
OracleOutputs ==
    { Raw("json", o) : o \in OracleObjects } \cup OddOutputs \cup {BackToSector}

\* the completions of the repair call
RepairOutputs ==
    { Raw("json", Obj(Str(<<"r">>), [EmptyState EXCEPT !.sector = Str(<<"d">>)])),
      Raw("json", Obj(Null, [EmptyState EXCEPT !.cierre_enviado = Bool(TRUE)])) }
    \cup OddOutputs

\* --------------------------------------------------------------- state

VARIABLES
    redis,        \* whether REDIS_URL is configured (the client exists)
    canNotify,    \* canNotifyAdminViaManyChat(): both ManyChat settings are set
    store,        \* the Redis keys zia:<contactId>
    sent,         \* per contact, the calls of sendAdminWhatsAppViaManyChat so far
    pc,           \* per handler, the await it is suspended at
    contactId,    \* per handler, its contactId
    userText,     \* per handler, its userText
    got,          \* per handler, the reply of its redis.get
    mem,          \* per handler, its mem
    reply,        \* per handler, its reply: "oracle" text or the "repeat" text
    response,     \* per handler, the response of its last finished turn
    oracleCalls,  \* per handler, the chat completions requested in the turn
    writes,       \* per handler, the turn's redis.set commands that reached the store
    prefilled,    \* per handler, whether the turn filled redes from the text
    delta,        \* per handler, what the output the turn has merged carried
    delivery      \* per handler, the outcome of the turn's delivery attempt

vars ==
    << redis, canNotify, store, sent, pc, contactId, userText, got, mem,
       reply, response, oracleCalls, writes, prefilled, delta, delivery >>

config == <<redis, canNotify>>

\* the counter of delivery attempts saturates here
MaxSent == 2

Init ==
    /\ redis \in BOOLEAN
    /\ canNotify \in BOOLEAN
    /\ store = [c \in Contacts |-> Absent]
    /\ sent = [c \in Contacts |-> 0]
    /\ pc = [w \in Procs |-> "idle"]
    /\ contactId = [w \in Procs |-> <<>>]
    /\ userText = [w \in Procs |-> <<>>]
    /\ got = [w \in Procs |-> Absent]
    /\ mem = [w \in Procs |-> defaultMemory]
    /\ reply = [w \in Procs |-> "none"]
    /\ response = [w \in Procs |-> "none"]
    /\ oracleCalls = [w \in Procs |-> 0]
    /\ writes = [w \in Procs |-> 0]
    /\ prefilled = [w \in Procs |-> FALSE]
    /\ delta = [w \in Procs |-> NoDelta]
    /\ delivery = [w \in Procs |-> "none"]

\* ------------------------------------------------------- the handler
\* One action per stretch of POST /mc/reply between two awaits.  A Redis
\* command takes effect when it is issued: the single ioredis connection
\* keeps the commands in the order of their calls, and the handler learns
\* the reply when it resumes.

\* the turn ends with a response; the handler's locals are dead
Finish(w, kind) ==
    /\ pc' = [pc EXCEPT ![w] = "idle"]
    /\ response' = [response EXCEPT ![w] = kind]
    /\ contactId' = [contactId EXCEPT ![w] = <<>>]
    /\ userText' = [userText EXCEPT ![w] = <<>>]
    /\ got' = [got EXCEPT ![w] = Absent]
    /\ mem' = [mem EXCEPT ![w] = defaultMemory]
    /\ reply' = [reply EXCEPT ![w] = "none"]

\* redis.get(key) is issued by loadMemory (none without a client)
BeginLoad(w, cid, text) ==
    /\ pc' = [pc EXCEPT ![w] = "load"]
    /\ response' = [response EXCEPT ![w] = "none"]
    /\ contactId' = [contactId EXCEPT ![w] = cid]
    /\ userText' = [userText EXCEPT ![w] = text]
    /\ got' = [got EXCEPT ![w] = IF redis THEN store[cid] ELSE Absent]
    /\ UNCHANGED <<mem, reply>>

\* lines 1008-1014
AudioUrlOf(body) ==
    IF looksLikeAudioUrl(safeText(body.user_text)) THEN safeText(body.user_text)
    ELSE IF safeText(body.user_text) = <<>> THEN getAudioUrl(body)
    ELSE <<>>

\* the blank text sent on to loadMemory
BlankAfterLoad(w, body) ==
    BeginLoad(w, safeText(body.contact_id), safeText(body.user_text))

\* lines 1030-1032: no text and no audio
Blank(w, body) == Finish(w, "blank")

\* lines 987-1035: a request arrives, up to the first await
Request(w, body) ==
    /\ pc[w] = "idle"
    /\ oracleCalls' = [oracleCalls EXCEPT ![w] = 0]
    /\ writes' = [writes EXCEPT ![w] = 0]
    /\ prefilled' = [prefilled EXCEPT ![w] = FALSE]
    /\ delta' = [delta EXCEPT ![w] = NoDelta]
    /\ delivery' = [delivery EXCEPT ![w] = "none"]
    /\ UNCHANGED <<config, store, sent>>
    /\ IF ~mustAuth(body) THEN Finish(w, "401")
       ELSE IF safeText(body.contact_id) = <<>> THEN Finish(w, "confirm")
       ELSE IF AudioUrlOf(body) # <<>>
       THEN /\ pc' = [pc EXCEPT ![w] = "transcribe"]
            /\ response' = [response EXCEPT ![w] = "none"]
            /\ contactId' = [contactId EXCEPT ![w] = safeText(body.contact_id)]
            /\ userText' = [userText EXCEPT ![w] = safeText(body.user_text)]
            /\ UNCHANGED <<got, mem, reply>>
       ELSE IF safeText(body.user_text) = <<>> THEN Blank(w, body)
       ELSE BeginLoad(w, safeText(body.contact_id), safeText(body.user_text))

\* the transcription's text taken as it comes, not trimmed
TranscribedUntrimmed(w, text) ==
    /\ pc[w] = "transcribe"
    /\ UNCHANGED <<config, store, sent, oracleCalls, writes, prefilled,
                   delta, delivery>>
    /\ IF Truthy(text)
       THEN BeginLoad(w, contactId[w], text.s)
       ELSE Finish(w, "noAudio")

\* lines 1018-1035: transcribeAudioFromUrl returns
Transcribed(w, text) ==
    /\ pc[w] = "transcribe"
    /\ UNCHANGED <<config, store, sent, oracleCalls, writes, prefilled,
                   delta, delivery>>
    /\ IF safeText(text) # <<>>
       THEN BeginLoad(w, contactId[w], safeText(text))
       ELSE Finish(w, "noAudio")

\* lines 1035-1078: loadMemory returns, up to the chat completion request.
\* userText is read once more, for the content of the history entry, which
\* the history (a sequence of roles) does not hold: it is dead from here on
Loaded(w) ==
    /\ pc[w] = "load"
    /\ UNCHANGED <<config, store, sent, writes, delta, delivery>>
    /\ LET m0 == loadMemory(got[w])
           m1 == [m0 EXCEPT !.pending = inferPending(m0)]
       IN  IF m1.cierre_enviado /\ isAck(userText[w])
           THEN /\ Finish(w, "ack")
                /\ UNCHANGED <<oracleCalls, prefilled>>
           ELSE /\ pc' = [pc EXCEPT ![w] = "oracle"]
                /\ mem' = [mem EXCEPT ![w] = Prefill(m1, userText[w])]
                /\ prefilled' = [prefilled EXCEPT ![w] = Prefills(m1, userText[w])]
                /\ oracleCalls' = [oracleCalls EXCEPT ![w] = 1]
                /\ userText' = [userText EXCEPT ![w] = <<>>]
                /\ UNCHANGED <<contactId, got, reply, response>>

\* the key built without the contact: every memory under one key
saveMemorySharedKey(w, m) ==
    /\ store' = IF redis THEN [store EXCEPT ![ContactA] = Stored(m)] ELSE store
    /\ writes' = [writes EXCEPT ![w] = IF redis THEN @ + 1 ELSE @]

\* saveMemory: redis.set(key, JSON.stringify(mem), "EX", ttl) is issued
saveMemory(w, m) ==
    /\ store' = IF redis THEN [store EXCEPT ![contactId[w]] = Stored(m)] ELSE store
    /\ writes' = [writes EXCEPT ![w] = IF redis THEN @ + 1 ELSE @]

\* lines 1113-1134: the parsed output is merged and the memory saved
Commit(w, parsed) ==
    /\ pc' = [pc EXCEPT ![w] = "save1"]
    /\ mem' = [mem EXCEPT ![w] = Reconcile(mem[w], parsed)]
    /\ reply' = [reply EXCEPT ![w] = ReplyText(parsed)]
    /\ delta' = [delta EXCEPT ![w] = DeltaOf(loadMemory(got[w]), mem[w], parsed)]
    /\ saveMemory(w, Reconcile(mem[w], parsed))
    /\ got' = [got EXCEPT ![w] = Absent]
    /\ UNCHANGED <<contactId, userText, response, oracleCalls>>

\* lines 1084-1100: the primary output did not parse; the repair completion
\* is requested
RequestRepair(w) ==
    /\ pc' = [pc EXCEPT ![w] = "repair"]
    /\ oracleCalls' = [oracleCalls EXCEPT ![w] = @ + 1]
    /\ UNCHANGED <<store, writes, delta, contactId, userText, got, mem,
                   reply, response>>

\* lines 1080-1100: the primary completion returns
OracleReturn(w, raw) ==
    /\ pc[w] = "oracle"
    /\ UNCHANGED <<config, sent, prefilled, delivery>>
    /\ IF Truthy(safeParseModelJson(raw))
       THEN Commit(w, safeParseModelJson(raw))
       ELSE RequestRepair(w)

\* a retry loop: the repair completion is requested again
GiveUpRetrying(w) ==
    /\ oracleCalls' = [oracleCalls EXCEPT ![w] = @ + 1]
    /\ UNCHANGED <<pc, store, writes, delta, contactId, userText, got, mem,
                   reply, response>>

\* the fallback reply after the memory is saved
GiveUpSaving(w) ==
    /\ Finish(w, "parseFallback")
    /\ saveMemory(w, mem[w])
    /\ UNCHANGED <<delta, oracleCalls>>

\* lines 1105-1110: the repair output did not parse either
GiveUp(w) ==
    /\ Finish(w, "parseFallback")
    /\ UNCHANGED <<store, writes, delta, oracleCalls>>

\* lines 1102-1111: the repair completion returns
RepairReturn(w, raw2) ==
    /\ pc[w] = "repair"
    /\ UNCHANGED <<config, sent, prefilled, delivery>>
    /\ IF Truthy(safeParseModelJson(raw2))
       THEN Commit(w, safeParseModelJson(raw2))
       ELSE GiveUp(w)

\* the flag set in the handler's copy only
MarkNotifiedInMemory(w) ==
    /\ mem' = [mem EXCEPT ![w].admin_notified = TRUE]
    /\ UNCHANGED <<store, writes>>

\* lines 1139-1140: mem.admin_notified = true; await saveMemory(contactId, mem)
MarkNotified(w) ==
    /\ mem' = [mem EXCEPT ![w].admin_notified = TRUE]
    /\ saveMemory(w, [mem[w] EXCEPT !.admin_notified = TRUE])

\* lines 1136-1140: the first saveMemory returns
Saved1(w) ==
    /\ pc[w] = "save1"
    /\ UNCHANGED <<config, sent, oracleCalls, prefilled, delivery>>
    /\ IF ShouldNotify(mem[w])
       THEN /\ pc' = [pc EXCEPT ![w] = "save2"]
            /\ MarkNotified(w)
            /\ UNCHANGED <<contactId, userText, got, reply, response, delta>>
       ELSE /\ Finish(w, reply[w])
            /\ delta' = [delta EXCEPT ![w] = NoDelta]
            /\ UNCHANGED <<store, writes>>

\* lines 1142-1158: the second saveMemory returns
Saved2(w) ==
    /\ pc[w] = "save2"
    /\ UNCHANGED <<config, store, oracleCalls, writes, prefilled, delivery>>
    /\ IF canNotify
       THEN /\ pc' = [pc EXCEPT ![w] = "notify"]
            /\ sent' = [sent EXCEPT ![contactId[w]] =
                          IF @ < MaxSent THEN @ + 1 ELSE @]
            /\ UNCHANGED <<contactId, userText, got, mem, reply, response,
                           delta>>
       ELSE /\ Finish(w, reply[w])
            /\ delta' = [delta EXCEPT ![w] = NoDelta]
            /\ UNCHANGED sent

\* the delivery awaited without its try/catch: the rejection reaches the
\* catch block of the handler
NotifiedRethrowing(w, ok) ==
    /\ pc[w] = "notify"
    /\ delivery' = [delivery EXCEPT ![w] = IF ok THEN "sent" ELSE "failed"]
    /\ Finish(w, IF ok THEN reply[w] ELSE "error")
    /\ delta' = [delta EXCEPT ![w] = NoDelta]
    /\ UNCHANGED <<config, store, sent, oracleCalls, writes, prefilled>>

\* lines 1150-1162: sendAdminWhatsAppViaManyChat resolves or rejects; the
\* rejection is caught and logged
Notified(w, ok) ==
    /\ pc[w] = "notify"
    /\ delivery' = [delivery EXCEPT ![w] = IF ok THEN "sent" ELSE "failed"]
    /\ Finish(w, reply[w])
    /\ delta' = [delta EXCEPT ![w] = NoDelta]
    /\ UNCHANGED <<config, store, sent, oracleCalls, writes, prefilled>>

\* the process dies while a handler is in flight: the handler never resumes;
\* the Redis keys and the messages already handed to ManyChat remain
Crash(w) ==
    /\ pc[w] # "idle"
    /\ Finish(w, "none")
    /\ UNCHANGED <<config, store, sent, oracleCalls, writes, prefilled, delta,
                   delivery>>

\* the steps of one handler
Turn(w) ==
    \/ \E body \in Bodies : Request(w, body)
    \/ \E text \in Transcripts : Transcribed(w, text)
    \/ Loaded(w)
    \/ \E raw \in OracleOutputs : OracleReturn(w, raw)
    \/ \E raw2 \in RepairOutputs : RepairReturn(w, raw2)
    \/ Saved1(w)
    \/ Saved2(w)
    \/ \E ok \in BOOLEAN : Notified(w, ok)

\* the turns of one contact, one at a time
Next == Turn(1)

Spec == Init /\ [][Next]_vars

\* the same, with the process free to die at any await
NextCrash == Turn(1) \/ Crash(1)

SpecCrash == Init /\ [][NextCrash]_vars

\* Two deliveries of the webhook for one contact handled at once (Express
\* starts a handler per request; each runs up to its next await).  The store
\* is configured; the request and the two completions are fixed: one gives
\* the sector, the other the rest of the lead with the closing flags.
ConcBodies == { Body(TRUE, Str(ContactA), Str(TFive), Null) }

ConcOutputs ==
    { Raw("json", Obj(Str(<<"r">>), [EmptyState EXCEPT !.sector = Str(<<"d">>)])),
      Raw("json", Obj(Str(<<"r">>),
                      [EmptyState EXCEPT !.servicio = Str(<<"d">>),
                                         !.redes = Str(<<"5">>),
                                         !.cerrado = Bool(TRUE),
                                         !.cierre_enviado = Bool(TRUE)])) }

InitConc == Init /\ redis

NextConc ==
    \E w \in Procs :
       \/ \E body \in ConcBodies : Request(w, body)
       \/ Loaded(w)
       \/ \E raw \in ConcOutputs : OracleReturn(w, raw)
       \/ Saved1(w)
       \/ Saved2(w)
       \/ \E ok \in BOOLEAN : Notified(w, ok)

SpecConc == InitConc /\ [][NextConc]_vars

\* The awaited calls can reject: redis.get and redis.set (a client exists but
\* the server is unreachable or the reply is lost), and the two chat
\* completions.  transcribeAudioFromUrl catches its own errors and returns ""
\* (the Null of Transcripts); the rejection of the delivery is Notified(w,
\* FALSE).  A rejected await throws into the catch block of the handler.

\* the exception leaves the handler: no response is written
Uncaught(w) == Finish(w, "none")

\* lines 1163-1166: the catch block answers with the fallback reply
Caught(w) == Finish(w, "error")

\* the await the handler is suspended at rejects; a redis.set that rejects
\* here had reached the server (its reply was lost)
Rejected(w) ==
    /\ \/ pc[w] \in {"oracle", "repair", "throw"}
       \/ redis /\ pc[w] \in {"load", "save1", "save2"}
    /\ Caught(w)
    /\ delta' = [delta EXCEPT ![w] = NoDelta]
    /\ UNCHANGED <<config, store, sent, oracleCalls, writes, prefilled,
                   delivery>>

\* lines 1113-1134 when the redis.set of line 1134 never reaches the server:
\* the memory is merged, the key keeps its value, the await will reject
SaveLost(w, raw) ==
    /\ pc[w] \in {"oracle", "repair"}
    /\ redis
    /\ Truthy(safeParseModelJson(raw))
    /\ pc' = [pc EXCEPT ![w] = "throw"]
    /\ mem' = [mem EXCEPT ![w] = Reconcile(mem[w], safeParseModelJson(raw))]
    /\ reply' = [reply EXCEPT ![w] = ReplyText(safeParseModelJson(raw))]
    /\ got' = [got EXCEPT ![w] = Absent]
    /\ UNCHANGED <<config, store, sent, contactId, userText, response,
                   oracleCalls, writes, prefilled, delta, delivery>>

\* lines 1136-1140 when the redis.set of line 1140 never reaches the server
MarkLost(w) ==
    /\ pc[w] = "save1"
    /\ redis
    /\ ShouldNotify(mem[w])
    /\ pc' = [pc EXCEPT ![w] = "throw"]
    /\ mem' = [mem EXCEPT ![w].admin_notified = TRUE]
    /\ UNCHANGED <<config, store, sent, contactId, userText, got, reply,
                   response, oracleCalls, writes, prefilled, delta, delivery>>

\* the requests and completions of the turns with failures: a text and a
\* voice note; a completion with the sector, one with the rest of the lead,
\* and prose
FailBodies ==
    { Body(TRUE, Str(ContactA), Str(TFive), Null),
      Body(TRUE, Str(ContactA), Null, Str(TVoice)) }

FailOutputs == ConcOutputs \cup {Raw("prose", Null)}

\* the turns of one contact, one at a time, every await free to reject
NextFail ==
    \/ \E body \in FailBodies : Request(1, body)
    \/ \E text \in Transcripts : Transcribed(1, text)
    \/ Loaded(1)
    \/ \E raw \in FailOutputs : OracleReturn(1, raw)
    \/ \E raw2 \in FailOutputs : RepairReturn(1, raw2)
    \/ Saved1(1)
    \/ Saved2(1)
    \/ \E ok \in BOOLEAN : Notified(1, ok)
    \/ Rejected(1)
    \/ \E raw \in FailOutputs : SaveLost(1, raw)
    \/ MarkLost(1)

SpecFail == Init /\ [][NextFail]_vars

\* every await settles: the HTTP calls carry timeouts and ioredis gives up
\* after maxRetriesPerRequest
SpecFailFair == SpecFail /\ WF_vars(NextFail)

\* Turns of a contact whose lead is given whole by every completion, while
\* the closing flags of the completion take every JSON type: absent or null,
\* true, false, a string, a number; one completion has no state at all.
\* The texts: a plain answer, an acknowledgment, an acknowledgment followed
\* by the thumbs-up glyph.
TGraciasUp == <<"g", "r", "a", "c", "i", "a", "s", " ", "uD83D", "uDC4D">>

ClosedBodies ==
    { Body(TRUE, Str(ContactA), Str(t), Null) : t \in {TFive, TOk, TGraciasUp} }

FlagValues ==
    { Null, Bool(TRUE), Bool(FALSE), Str(<<"t", "r", "u", "e">>), Num(1), Num(0) }

FlagOutputs ==
    { Raw("json", Obj(Str(<<"r">>),
                      [EmptyState EXCEPT !.sector = Str(<<"d">>),
                                         !.servicio = Str(<<"d">>),
                                         !.redes = Str(<<"5">>),
                                         !.cerrado = f1,
                                         !.cierre_enviado = f2])) :
        f1 \in FlagValues, f2 \in FlagValues }
    \cup { Raw("json", Obj(Str(<<"r">>), Null)) }

NextClosed ==
    \/ \E body \in ClosedBodies : Request(1, body)
    \/ Loaded(1)
    \/ \E raw \in FlagOutputs : OracleReturn(1, raw)
    \/ Saved1(1)
    \/ Saved2(1)
    \/ \E ok \in BOOLEAN : Notified(1, ok)

SpecClosed == Init /\ [][NextClosed]_vars

\* Turns of two contacts interleaved: one handler serves the requests of
\* contact c1, the other those of contact c2, each at its own pace.
IsoBody(w) ==
    Body(TRUE, Str(IF w = 1 THEN ContactA ELSE ContactB), Str(TFive), Null)

NextIso ==
    \E w \in Procs :
       \/ Request(w, IsoBody(w))
       \/ Loaded(w)
       \/ \E raw \in ConcOutputs : OracleReturn(w, raw)
       \/ Saved1(w)
       \/ Saved2(w)
       \/ \E ok \in BOOLEAN : Notified(w, ok)

SpecIso == InitConc /\ [][NextIso]_vars

\* --------------------------------------------------------------- claims

\* the persisted memory of a contact (the default one while the key is absent)
Persisted(c) == store[c].val

AllFilled(m) == m.sector # <<>> /\ m.servicio # <<>> /\ m.redes # <<>>

\* C1 (monotonic fill): with the store available, a slot of sector, servicio,
\* redes that is non-empty in the persisted state is non-empty after every
\* step of a turn, and its value changes only in a step that merges a delta
\* whose value for that slot is non-empty once trimmed; an empty, blank or
\* absent delta value never erases or alters it.
C1_MonotonicFill ==
    [][ \A c \in Contacts : \A i \in 1..Len(Slots) :
          (redis /\ Persisted(c)[Slots[i]] # <<>>) =>
             /\ store'[c].val[Slots[i]] # <<>>
             /\ store'[c].val[Slots[i]] # Persisted(c)[Slots[i]] =>
                  \E w \in Procs : /\ contactId[w] = c
                                   /\ pc[w] \in {"oracle", "repair"}
                                   /\ pc'[w] = "save1"
                                   /\ i \in delta'[w].slots ]_vars

\* C1 witness: a turn whose delta supplied no slot has been saved and the
\* three slots, filled by earlier turns, are still there
C1_Witness ==
    /\ redis
    /\ pc[1] = "save1"
    /\ delta[1].slots = {}
    /\ ~prefilled[1]
    /\ AllFilled(Persisted(ContactA))
    /\ Persisted(ContactA).sector = <<"e">>

\* C2 (idempotent notification): with the store available, the delivery is
\* attempted at most once per contact over all its turns, and the persisted
\* admin_notified, once true, is never false again.
C2_IdempotentNotification ==
    /\ [](\A c \in Contacts : redis => sent[c] <= 1)
    /\ [][ \A c \in Contacts :
             (redis /\ Persisted(c).admin_notified) =>
                store'[c].val.admin_notified ]_vars

\* C2 witness: after the one delivery, a later turn has saved a complete lead
\* again and the guard finds the flag set
C2_Witness ==
    /\ redis
    /\ sent[ContactA] = 1
    /\ pc[1] = "save1"
    /\ leadComplete(mem[1])
    /\ mem[1].admin_notified
    /\ Persisted(ContactA).admin_notified

\* C3 (repair bound): a turn requests at most two completions; the second is
\* requested only by the step that receives the primary output, and that step
\* merges and writes nothing (the output did not parse); no step taken from
\* the repair await requests another one.
C3_RepairBound ==
    [][ \A w \in Procs :
          /\ oracleCalls'[w] <= 2
          /\ (pc'[w] = "repair" /\ pc[w] # "repair") =>
                /\ pc[w] = "oracle"
                /\ oracleCalls[w] = 1
                /\ oracleCalls'[w] = 2
                /\ writes'[w] = 0
                /\ mem'[w] = mem[w]
                /\ store' = store
          /\ pc[w] = "repair" =>
                /\ oracleCalls[w] = 2
                /\ oracleCalls'[w] = 2
                /\ pc'[w] \in {"repair", "save1", "idle"} ]_vars

\* C3 witness: a turn has ended in the fallback reply after two completions
C3_Witness ==
    /\ pc[1] = "idle"
    /\ response[1] = "parseFallback"
    /\ oracleCalls[1] = 2

\* C4 (unrecoverable parse failure): the step that answers with the fallback
\* reply follows two outputs that did not parse, writes nothing and notifies
\* nobody, and leaves the store as the turn read it, whether or not the
\* heuristic had filled redes in the handler's memory.
C4_ParseFailureKeepsState ==
    [][ \A w \in Procs :
          response'[w] = "parseFallback" /\ pc[w] # "idle" =>
             /\ pc[w] = "repair" /\ pc'[w] = "idle"
             /\ store' = store
             /\ redis => store'[contactId[w]] = got[w]
             /\ writes'[w] = 0
             /\ sent' = sent
             /\ delivery'[w] = "none" ]_vars

\* C4 witness: the fallback reply ended a turn that had filled redes in
\* memory, and the persisted redes is still empty
C4_Witness ==
    /\ redis
    /\ pc[1] = "idle"
    /\ response[1] = "parseFallback"
    /\ prefilled[1]
    /\ store[ContactA].present
    /\ Persisted(ContactA).redes = <<>>
    /\ Persisted(ContactA).servicio # <<>>

\* the first empty slot in the order sector, servicio, redes
FirstEmpty(m) ==
    IF \E i \in 1..Len(Slots) : m[Slots[i]] = <<>>
    THEN <<PSector, PServicio, PRedes>>[
            CHOOSE i \in 1..Len(Slots) :
               /\ m[Slots[i]] = <<>>
               /\ \A j \in 1..(i - 1) : m[Slots[j]] # <<>> ]
    ELSE PNone

\* C5 (pending purity): in every persisted state pending is the first of
\* sector, servicio, redes that is empty, or "none" when none is, whatever
\* pending the oracle proposed and whatever pending was stored before.
C5_PendingPurity ==
    \A c \in Contacts : Persisted(c).pending = FirstEmpty(Persisted(c))

\* C5 witness: the delta just merged proposed pending "none" while sector is
\* still empty, and the persisted pending is "sector"
C5_Witness ==
    /\ redis
    /\ pc[1] = "save1"
    /\ delta[1].pending = PNone
    /\ store[ContactA].present
    /\ Persisted(ContactA).pending = PSector

\* a message of the acknowledgment vocabulary: one of its words, in any case,
\* with blanks around it or not
InAckVocabulary(text) ==
    \E word \in AckWords :
       /\ Len(trim(text)) = Len(word)
       /\ \A i \in 1..Len(word) : LowerChar(trim(text)[i]) = word[i]

\* C6 (acknowledgment short-circuit): when the memory read for a turn is
\* closed (cerrado and cierre_enviado) and the message is in the
\* acknowledgment vocabulary, the turn ends at once with the fixed
\* acknowledgment reply, requests no completion, writes nothing, and the
\* store keeps what the turn read.
C6_AckShortCircuit ==
    [][ \A w \in Procs :
          ( /\ pc[w] = "load"
            /\ pc'[w] # "load"
            /\ loadMemory(got[w]).cerrado
            /\ loadMemory(got[w]).cierre_enviado
            /\ InAckVocabulary(userText[w]) ) =>
             /\ pc'[w] = "idle"
             /\ response'[w] = "ack"
             /\ oracleCalls'[w] = 0
             /\ writes'[w] = 0
             /\ sent' = sent
             /\ store' = store
             /\ store'[contactId[w]] = got[w] ]_vars

\* C6 witness: a closed, notified contact has just been answered with the
\* acknowledgment reply, with no completion requested
C6_Witness ==
    /\ pc[1] = "idle"
    /\ response[1] = "ack"
    /\ oracleCalls[1] = 0
    /\ Persisted(ContactA).cerrado
    /\ Persisted(ContactA).cierre_enviado
    /\ Persisted(ContactA).admin_notified

\* C7 (write-ahead notification): with the store available, whenever a
\* delivery has been attempted for a contact, at the attempt and ever after,
\* whether the delivery fails or the process dies, the store holds
\* admin_notified = true for that contact, and no second attempt is made.
C7_WriteAhead ==
    \A c \in Contacts :
       (redis /\ sent[c] > 0) =>
          /\ store[c].present
          /\ Persisted(c).admin_notified
          /\ sent[c] = 1

\* C7 witness: the process has died during the delivery attempt (two writes,
\* one attempt, no outcome, no response) and the store holds the flag
C7_Witness ==
    /\ redis
    /\ pc[1] = "idle"
    /\ response[1] = "none"
    /\ writes[1] = 2
    /\ sent[ContactA] = 1
    /\ delivery[1] = "none"
    /\ Persisted(ContactA).admin_notified

\* C8, as claimed: in every persisted state admin_notified implies cerrado
\* and cierre_enviado.
C8_NotifiedImpliesClosed ==
    \A c \in Contacts :
       Persisted(c).admin_notified =>
          Persisted(c).cerrado /\ Persisted(c).cierre_enviado

\* C9, as claimed: in every persisted state cerrado implies that sector,
\* servicio and redes are all non-empty.
C9_ClosedImpliesFilled ==
    \A c \in Contacts : Persisted(c).cerrado => AllFilled(Persisted(c))

\* C10 (history bound): the persisted history never has more than 12 entries.
C10_HistoryBound ==
    \A c \in Contacts : Len(Persisted(c).history) <= HistoryKeep

\* C10 witness: a turn has appended its two entries to a full history, the
\* clamp dropped the two oldest, and 12 entries are persisted
C10_Witness ==
    /\ redis
    /\ pc[1] = "save1"
    /\ delta[1].dropped = 2
    /\ Len(Persisted(ContactA).history) = HistoryKeep

\* the persisted memory of a contact is closed
Closed(m) == m.cerrado /\ m.cierre_enviado

\* C11, as claimed: a turn that finds a slot of sector, servicio, redes empty
\* and fills the last one persists cerrado and cierre_enviado true in its
\* first write, and ends with admin_notified persisted by a second write and
\* with one delivery attempted.
C11_ClosingTransition ==
    [][ \A w \in Procs :
          /\ ( /\ redis
               /\ pc[w] \in {"oracle", "repair"}
               /\ pc'[w] = "save1"
               /\ delta'[w].closing ) =>
                Closed(store'[contactId[w]].val)
          /\ ( /\ redis
               /\ pc[w] # "idle"
               /\ pc'[w] = "idle"
               /\ delta[w].closing ) =>
                /\ Closed(store'[contactId[w]].val)
                /\ store'[contactId[w]].val.admin_notified
                /\ writes'[w] = 2
                /\ delivery'[w] # "none" ]_vars

\* C12, as claimed: a persisted memory with cerrado and cierre_enviado true
\* has both true after every step of every later turn.
C12_ClosedAbsorbing ==
    [][ \A c \in Contacts :
          Closed(Persisted(c)) => Closed(store'[c].val) ]_vars

\* C13, as claimed: with two turns of one contact in flight at once, at most
\* one delivery is attempted for the contact in total.
C13_NoDuplicateUnderConcurrency ==
    \A c \in Contacts : sent[c] <= 1

\* C14 (lost update): a persisted slot goes from non-empty to empty, or the
\* persisted admin_notified from true to false, only by the first write of a
\* turn whose own copy of the memory, read before the other turn's write,
\* has the slot empty (the flag false): the whole copy replaces the entry.
C14_LostUpdate ==
    [][ \A c \in Contacts :
          /\ \A i \in 1..Len(Slots) :
                (Persisted(c)[Slots[i]] # <<>> /\ store'[c].val[Slots[i]] = <<>>) =>
                   \E w \in Procs : /\ contactId[w] = c
                                    /\ pc[w] \in {"oracle", "repair"}
                                    /\ pc'[w] = "save1"
                                    /\ mem[w][Slots[i]] = <<>>
                                    /\ store'[c] = Stored(mem'[w])
          /\ (Persisted(c).admin_notified /\ ~store'[c].val.admin_notified) =>
                \E w \in Procs : /\ contactId[w] = c
                                 /\ pc[w] \in {"oracle", "repair"}
                                 /\ pc'[w] = "save1"
                                 /\ ~mem[w].admin_notified
                                 /\ store'[c] = Stored(mem'[w]) ]_vars

\* C14 witness: both turns have issued their first write; one of them wrote
\* the closed lead and set admin_notified, and the entry now holds the other's
\* copy, with servicio empty and admin_notified false
C14_Witness ==
    \E w \in Procs : \E v \in Procs \ {w} :
       /\ pc[w] = "save1"
       /\ pc[v] \in {"save2", "notify"}
       /\ mem[v].servicio # <<>>
       /\ mem[v].admin_notified
       /\ store[ContactA] = Stored(mem[w])
       /\ Persisted(ContactA).servicio = <<>>
       /\ ~Persisted(ContactA).admin_notified

\* the fallback replies of a turn that failed
FailureReplies == {"error", "parseFallback"}

\* the replies produced from the oracle's output
OracleReplies == {"oracle", "repeat"}

\* C15, as claimed: a turn that ends with the oracle's reply has persisted
\* its reconciled memory, and a turn that ends with a fallback reply has
\* written nothing to the store, whichever await rejected.
C15_TurnAtomicity ==
    [][ \A w \in Procs :
          (pc[w] # "idle" /\ pc'[w] = "idle") =>
             /\ (redis /\ response'[w] \in OracleReplies) =>
                   store'[contactId[w]] = Stored(mem[w])
             /\ response'[w] \in FailureReplies => writes'[w] = 0 ]_vars

\* the natural-language replies of the handler
Replies ==
    {"confirm", "noAudio", "blank", "ack", "parseFallback", "oracle",
     "repeat", "error"}

\* C16 (one reply per turn): whichever await rejects, no response is written
\* while the turn is in flight, the step that ends the turn writes one reply
\* (the exception does not leave the handler), every turn in flight ends, and
\* a handler that has ended accepts the next request.
C16_AlwaysOneReply ==
    /\ [][ \A w \in Procs :
             /\ pc'[w] # "idle" => response'[w] = "none"
             /\ (pc[w] # "idle" /\ pc'[w] = "idle") => response'[w] \in Replies ]_vars
    /\ [](pc[1] = "idle" => ENABLED (\E body \in FailBodies : Request(1, body)))
    /\ (pc[1] # "idle") ~> (pc[1] = "idle" /\ response[1] \in Replies)

\* C16 witness: the second redis.set of a turn rejected and the turn has
\* ended with the catch block's reply
C16_Witness ==
    /\ redis
    /\ pc[1] = "idle"
    /\ response[1] = "error"
    /\ writes[1] = 2
    /\ oracleCalls[1] = 1

\* C20, as claimed: a turn does not fail when a redis.get or a redis.set
\* rejects: no step taken from the await of a store command ends the turn
\* with the failure reply.
C20_DegradedStore ==
    [][ \A w \in Procs :
          pc[w] \in {"load", "save1", "save2", "throw"} =>
             response'[w] # "error" ]_vars

\* C17 (notification failure is swallowed): with the store available, the
\* step that receives the outcome of the delivery, failed or not, answers
\* with the reply the oracle gave, leaves the store as it is, with
\* admin_notified true and the turn's memory in it, and once a delivery has
\* been attempted for a contact no step attempts another.
C17_NotificationFailureSwallowed ==
    [][ /\ \A w \in Procs :
             (pc[w] = "notify" /\ pc'[w] # "notify") =>
                /\ pc'[w] = "idle"
                /\ response'[w] = reply[w]
                /\ response'[w] \in OracleReplies
                /\ store' = store
                /\ redis => /\ store'[contactId[w]] = Stored(mem[w])
                            /\ store'[contactId[w]].val.admin_notified
        /\ \A c \in Contacts :
             (redis /\ sent[c] >= 1) => sent'[c] = sent[c] ]_vars

\* C17 witness: the delivery failed, the turn has answered with the oracle's
\* reply and the store holds admin_notified
C17_Witness ==
    /\ redis
    /\ pc[1] = "idle"
    /\ delivery[1] = "failed"
    /\ response[1] = "oracle"
    /\ sent[ContactA] = 1
    /\ Persisted(ContactA).admin_notified

\* a request without a contact identity, or with one and neither a text nor
\* an audio reference
InputError(body) ==
    \/ safeText(body.contact_id) = <<>>
    \/ safeText(body.user_text) = <<>> /\ getAudioUrl(body) = <<>>

\* the authorized requests in error
InputErrorBodies == { body \in Bodies : mustAuth(body) /\ InputError(body) }

\* C18 (input errors have no effects): an authorized request without a
\* contact identity, or with one and neither text nor audio reference, is
\* answered at once with the fixed reply of its case, with no transcription,
\* no redis.get, no redis.set, no completion and no delivery.
C18_InputErrorsNoEffects ==
    [][ \A w \in Procs : \A body \in InputErrorBodies :
          (pc[w] = "idle" /\ Request(w, body)) =>
             /\ pc'[w] = "idle"
             /\ response'[w] =
                   IF safeText(body.contact_id) = <<>> THEN "confirm" ELSE "blank"
             /\ got'[w] = Absent
             /\ store' = store
             /\ oracleCalls'[w] = 0
             /\ writes'[w] = 0
             /\ sent' = sent
             /\ delivery'[w] = "none" ]_vars

\* C18 witness: a contact with a stored memory has been answered with the
\* blank-message reply
C18_Witness ==
    /\ pc[1] = "idle"
    /\ response[1] = "blank"
    /\ store[ContactA].present
    /\ oracleCalls[1] = 0
    /\ writes[1] = 0

\* the transcriptions that give no text
FailedTranscripts == { text \in Transcripts : safeText(text) = <<>> }

\* C19 (transcription failure): when the transcription of a voice note
\* gives nothing, an error or only blanks, the turn ends with the fixed
\* could-not-hear reply, with no redis.get, no redis.set, no completion and
\* no delivery; a turn goes on from the transcription only with a text.
C19_TranscriptionFailure ==
    [][ \A w \in Procs :
          /\ \A text \in FailedTranscripts :
                (pc[w] = "transcribe" /\ Transcribed(w, text)) =>
                   /\ pc'[w] = "idle"
                   /\ response'[w] = "noAudio"
                   /\ got'[w] = Absent
                   /\ store' = store
                   /\ oracleCalls'[w] = 0
                   /\ writes'[w] = 0
                   /\ sent' = sent
                   /\ delivery'[w] = "none"
          /\ (pc[w] = "transcribe" /\ pc'[w] = "load") =>
                trim(userText'[w]) # <<>> ]_vars

\* C19 witness: a contact with a stored memory has been answered with the
\* could-not-hear reply
C19_Witness ==
    /\ pc[1] = "idle"
    /\ response[1] = "noAudio"
    /\ store[ContactA].present
    /\ oracleCalls[1] = 0
    /\ writes[1] = 0

\* an acknowledgment word, in any case, followed by a blank and more tokens
AckWithTokens(text) ==
    \E word \in AckWords :
       /\ Len(trim(text)) > Len(word) + 1
       /\ \A i \in 1..Len(word) : LowerChar(trim(text)[i]) = word[i]
       /\ IsSpace(trim(text)[Len(word) + 1])

\* C21, as claimed: when the memory read for a turn is closed and the message
\* is an acknowledgment word followed by further tokens, the turn ends at
\* once with the acknowledgment reply, requests no completion and leaves the
\* store (admin_notified included) as it is.
C21_AckWithTokens ==
    [][ \A w \in Procs :
          ( /\ pc[w] = "load"
            /\ pc'[w] # "load"
            /\ Closed(loadMemory(got[w]))
            /\ AckWithTokens(userText[w]) ) =>
             /\ response'[w] = "ack"
             /\ oracleCalls'[w] = 0
             /\ store' = store ]_vars

\* the value a completion gives for a flag: that of its state object, if it
\* is an object with a state object
DeltaFlag(raw, flag) ==
    IF raw.val.t = "obj" /\ raw.val.state.t = "state"
    THEN raw.val.state[flag]
    ELSE Null

\* the flag after the merge, as claimed
RetainedFlag(new, old) ==
    IF new \in {Bool(TRUE), Bool(FALSE)} THEN new = Bool(TRUE) ELSE old

\* C22 (flag retention): the step that merges a completion leaves cerrado
\* and cierre_enviado, in the handler's memory and in the store, equal to
\* the completion's value when it is a boolean, and to the value loaded for
\* the turn when it is absent, null, a string, a number, or when the
\* completion has no state object.
C22_FlagRetention ==
    [][ \A w \in Procs : \A raw \in FlagOutputs :
          (pc[w] = "oracle" /\ OracleReturn(w, raw)) =>
             /\ pc'[w] = "save1"
             /\ mem'[w].cerrado =
                   RetainedFlag(DeltaFlag(raw, "cerrado"), mem[w].cerrado)
             /\ mem'[w].cierre_enviado =
                   RetainedFlag(DeltaFlag(raw, "cierre_enviado"),
                                mem[w].cierre_enviado)
             /\ redis => store'[contactId[w]] = Stored(mem'[w]) ]_vars

\* C22 witness: a closed, notified contact has been through a later merge
\* and is still closed (its completion gave, for each flag, true or a value
\* that is no boolean)
C22_Witness ==
    /\ redis
    /\ pc[1] = "save1"
    /\ Len(Persisted(ContactA).history) >= 4
    /\ Closed(Persisted(ContactA))
    /\ Persisted(ContactA).admin_notified

\* C23 (pre-fill precedes the oracle): the step that requests the completion
\* has, when the loaded memory has sector and servicio filled and redes
\* empty and the message is a link, a handle or a plausible business name,
\* set redes to the message and pending to "none" in the memory the snapshot
\* is taken from; in every other case its memory has the three slots as
\* loaded; sector, servicio and a non-empty redes are never changed.
C23_PrefillBeforeOracle ==
    [][ \A w \in Procs :
          (pc[w] = "load" /\ pc'[w] = "oracle") =>
             /\ oracleCalls[w] = 0
             /\ oracleCalls'[w] = 1
             /\ mem'[w].sector = loadMemory(got[w]).sector
             /\ mem'[w].servicio = loadMemory(got[w]).servicio
             /\ mem'[w].pending = FirstEmpty(mem'[w])
             /\ IF /\ loadMemory(got[w]).sector # <<>>
                   /\ loadMemory(got[w]).servicio # <<>>
                   /\ loadMemory(got[w]).redes = <<>>
                   /\ \/ looksLikeLinkOrHandle(userText[w])
                      \/ looksLikeBusinessName(userText[w])
                THEN /\ mem'[w].redes = userText[w]
                     /\ mem'[w].redes # <<>>
                     /\ mem'[w].pending = PNone
                ELSE mem'[w].redes = loadMemory(got[w]).redes ]_vars

\* C23 witness: the completion has been requested with redes set to the
\* handle the user sent, pending "none", while the store still has redes
\* empty
C23_Witness ==
    /\ redis
    /\ pc[1] = "oracle"
    /\ prefilled[1]
    /\ mem[1].redes = THandle
    /\ mem[1].pending = PNone
    /\ Persisted(ContactA).redes = <<>>

\* C24, as claimed: a turn ends with the acknowledgment reply, the oracle
\* skipped, only when the memory it loaded has cerrado and cierre_enviado
\* true and the three slots filled.
C24_AckOnlyWhenClosed ==
    [][ \A w \in Procs :
          (pc[w] = "load" /\ response'[w] = "ack") =>
             /\ Closed(loadMemory(got[w]))
             /\ AllFilled(loadMemory(got[w])) ]_vars

\* completions that are valid JSON and no object
NonObjectJson == { Raw("json", Null), Raw("json", Num(0)), Raw("json", Num(5)) }

\* C25, as claimed: a completion that is valid JSON and no object makes the
\* primary step request the repair, and makes the repair step end the turn
\* with the fallback reply, with no write.
C25_NonObjectIsParseFailure ==
    [][ \A w \in Procs : \A raw \in NonObjectJson :
          /\ (pc[w] = "oracle" /\ OracleReturn(w, raw)) =>
                pc'[w] = "repair" /\ writes'[w] = 0
          /\ (pc[w] = "repair" /\ RepairReturn(w, raw)) =>
                /\ response'[w] = "parseFallback"
                /\ writes'[w] = 0
                /\ store' = store ]_vars

\* C26 (the guard is not deferred): with the store available, whenever no
\* turn is in flight, a persisted memory with sector, servicio, redes filled
\* and cierre_enviado true has admin_notified true.
C26_NotifiedWhenComplete ==
    \A c \in Contacts :
       (redis /\ pc[1] = "idle") =>
          ( (AllFilled(Persisted(c)) /\ Persisted(c).cierre_enviado) =>
               Persisted(c).admin_notified )

\* C26 witness: the turn that completed the lead has ended with the oracle's
\* reply after its two writes; the lead is complete and admin_notified set
C26_Witness ==
    /\ redis
    /\ pc[1] = "idle"
    /\ response[1] \in OracleReplies
    /\ writes[1] = 2
    /\ AllFilled(Persisted(ContactA))
    /\ Persisted(ContactA).cierre_enviado
    /\ Persisted(ContactA).admin_notified

\* C27 (notified implies filled): in every persisted memory admin_notified
\* true implies sector, servicio and redes non-empty.
C27_NotifiedImpliesFilled ==
    \A c \in Contacts :
       Persisted(c).admin_notified => AllFilled(Persisted(c))

\* C27 witness: a notified contact whose cierre_enviado a later turn has set
\* back to false still has its three slots
C27_Witness ==
    /\ redis
    /\ Persisted(ContactA).admin_notified
    /\ ~Persisted(ContactA).cierre_enviado
    /\ AllFilled(Persisted(ContactA))

\* sector < servicio < redes < none
Rank(pending) ==
    CASE pending = PSector   -> 0
      [] pending = PServicio -> 1
      [] pending = PRedes    -> 2
      [] pending = PNone     -> 3

\* C28 (pending never regresses): no step lowers the persisted pending of a
\* contact in the order sector < servicio < redes < none, whatever pending
\* the completion proposes.
C28_PendingNeverRegresses ==
    [][ \A c \in Contacts :
          Rank(store'[c].val.pending) >= Rank(Persisted(c).pending) ]_vars

\* C28 witness: the completion just merged proposed pending "sector" and the
\* persisted pending is still "none"
C28_Witness ==
    /\ redis
    /\ pc[1] = "save1"
    /\ delta[1].pending = PSector
    /\ Persisted(ContactA).pending = PNone

\* C29 (per-contact isolation): a handler's redis.get returns the entry of
\* its own contact, and a step changes the store entry, or the count of
\* deliveries, of a contact only if it is a step of a handler serving that
\* contact; every other contact's entry is left as it is.
C29_ContactIsolation ==
    [][ /\ \A w \in Procs :
             (pc[w] # "load" /\ pc'[w] = "load") =>
                got'[w] = store[contactId'[w]]
        /\ \A c \in Contacts :
             (store'[c] # store[c] \/ sent'[c] # sent[c]) =>
                \E w \in Procs : pc'[w] # pc[w] /\ contactId[w] = c ]_vars

\* C29 witness: the turn of c1 has just written its entry while a turn of c2
\* is in flight; the entry of c2, written by an earlier turn of c2, differs
\* from that of c1
C29_Witness ==
    /\ pc[1] = "save1"
    /\ pc[2] = "oracle"
    /\ store[ContactA] = Stored(mem[1])
    /\ store[ContactB].present
    /\ Persisted(ContactA).sector # <<>>
    /\ Persisted(ContactB).sector = <<>>
    /\ Persisted(ContactB).servicio # <<>>

====
